---- MODULE Spec2Model ----
(***************************************************************************)
(* Flood impact compositing (python/fld_impact_gdal.py and                 *)
(* python/fld_impact_rio.py): impact() runs get_population, get_crop and   *)
(* get_osm_table on a three-worker thread pool, joins them, scatters the   *)
(* amenity costs into band 2, derives alpha and writes the rasters.        *)
(*                                                                         *)
(* Number representation.                                                  *)
(*   - Raster cells are indexed <<row, col>>, as numpy's array[row, col].  *)
(*   - Population values are integers; float32 arithmetic on them is       *)
(*     carried out on a 24-bit significand (F32Div, F32Mul) and a float is *)
(*     the record [nan, m, e] of value m / 2^e.                            *)
(*   - An amenity cost is kept in units of sq_ft_cost ($8.25): 'food' is   *)
(*     3500. The quotients cost * 255 / max_cost do not depend on the unit.*)
(*   - Point coordinates and the geotransform are in half pixels, so that  *)
(*     a division by the pixel size meets the .5 cases of round().         *)
(*   - One coordinate unit (half a pixel) is 2^-unit degrees. pixel_area   *)
(*     is the double [num, exp] of value num / (125 * 2^exp) hectares,     *)
(*     correctly rounded; crop_hectares is in hundredths of a hectare.     *)
(*   - A cost-raster cell is [nan, half_sqft, crop]: its value in dollars  *)
(*     is (4.125 * half_sqft + cost_per_hectare * crop) / 255.             *)
(***************************************************************************)
EXTENDS Integers, Sequences, FiniteSets, TLC

(* ------------------------------- bounds -------------------------------- *)
\* Grid of the flood raster: floodmap_array.shape == (Height, Width).
Width == 2
Height == 2
\* Population cell values range over PopMin .. PopMax (PopMin == -PopNeg).
PopNeg == 2
PopMax == 7
\* Cropland class codes 0 .. MaxCrop (2 is "cropland").
MaxCrop == 3
\* Flood raster values 0 .. MaxFloodVal (1 is "flooded").
MaxFloodVal == 2
\* Point coordinates reach HalfMargin half pixels beyond the grid.
HalfMargin == 2

(* --------------------------- the flood grid ---------------------------- *)
Rows == 0 .. (Height - 1)
Cols == 0 .. (Width - 1)
Cells == Rows \X Cols

\* Geotransform of the flood raster in half pixels: origin (0, 0), pixel
\* width 2, pixel height -2 (north up). GDAL orders it
\* (originX, pixelW, rot, originY, rot, pixelH); rasterio's Affine is
\* (a, b, c, d, e, f) = (pixelW, rot, originX, rot, pixelH, originY).
OriginX == 0
OriginY == 0
PixelW == 2
PixelH == -2
GdalGeoTransform == <<OriginX, PixelW, 0, OriginY, 0, PixelH>>
RioTransform == <<PixelW, 0, OriginX, 0, PixelH, OriginY>>

(* --------------------------- integer helpers --------------------------- *)
Max(S) == CHOOSE x \in S : \A y \in S : y <= x
Min(S) == CHOOSE x \in S : \A y \in S : x <= y

RECURSIVE SumSeq(_)
SumSeq(s) == IF s = <<>> THEN 0 ELSE Head(s) + SumSeq(Tail(s))

\* n / d rounded to the nearest integer, ties to the even one (numpy's and
\* Python's round); d # 0.
RoundHalfEvenPos(n, d) ==
    LET q == n \div d
        r == n % d
    IN  IF 2 * r < d THEN q
        ELSE IF 2 * r > d THEN q + 1
        ELSE IF q % 2 = 0 THEN q ELSE q + 1
RoundHalfEven(n, d) == IF d < 0 THEN RoundHalfEvenPos(-n, -d) ELSE RoundHalfEvenPos(n, d)

(* ------------------------- float64 arithmetic -------------------------- *)
\* A double that is the quotient of a division by 10000 of an exactly known
\* dividend is kept as [num, exp]: the double nearest num / (125 * 2^exp)
\* (10000 = 125 * 2^4). With a for num, that double is P * 2^-(s + exp) with
\* P the 53-bit integer nearest a * 2^s / 125, so 125 * P = a * 2^s + c with
\* the signed remainder c. In n * pixel_area the product n * P is rounded to
\* 53 bits again, with error e2 in units of the last bit of P; the product is
\* above the rational n * a / (125 * 2^exp) iff 125 * e2 + n * c > 0, and
\* round() rounds the double it is given.
Double(num, exp) == [num |-> num, exp |-> exp]

\* The same double with the factors two of num moved into the exponent.
RECURSIVE Dyadic(_, _)
Dyadic(num, exp) ==
    IF num # 0 /\ num % 2 = 0 THEN Dyadic(num \div 2, exp - 1) ELSE Double(num, exp)

RECURSIVE BinadeUp(_, _)
BinadeUp(a, u) == IF a * 2^u >= 125 THEN u ELSE BinadeUp(a, u + 1)
RECURSIVE BinadeDown(_, _)
BinadeDown(a, d) == IF a < 250 * 2^d THEN d ELSE BinadeDown(a, d + 1)
RECURSIVE Pow2Mod125(_)
Pow2Mod125(s) == IF s = 0 THEN 1 ELSE (2 * Pow2Mod125(s - 1)) % 125

\* The signed remainder c of the division that gives the double of a / 125.
DivRemainder(a, s) ==
    LET r == ((a % 125) * Pow2Mod125(s)) % 125
    IN  IF r = 0 THEN 0 ELSE IF 2 * r > 125 THEN 125 - r ELSE -r

\* The number of bits n * P has beyond 53.
RECURSIVE ExtraBits(_, _, _, _, _, _)
ExtraBits(n, a, u, d, c, k) ==
    LET lhs == n * a * 2^u
        rhs == 125 * 2^(d + 1 + k)
    IN  IF lhs < rhs \/ (lhs = rhs /\ c < 0) THEN k
        ELSE ExtraBits(n, a, u, d, c, k + 1)

\* The inverse of 125 modulo 2^j.
Inverse125(j) == CHOOSE x \in 0 .. (2^j - 1) : (125 * x) % 2^j = 1 % 2^j

\* The error of rounding n * P to 53 bits (ties to even), from the k + 1 low
\* bits of P: 125 * P = c modulo 2^(k + 1), as a * 2^s is a multiple of it.
ProductError(n, c, k) ==
    LET m == 2^(k + 1)
        Plow == (((c * Inverse125(k + 1)) % m) + m) % m
        np == ((n % m) * Plow) % m
        R == np % 2^k
        half == 2^k \div 2
    IN  IF k = 0 THEN 0
        ELSE IF R < half THEN -R
        ELSE IF R > half THEN 2^k - R
        ELSE IF (np \div 2^k) % 2 = 0 THEN -R ELSE 2^k - R

\* n times the rational area.num / (125 * 2^area.exp), in hundredths, as the
\* fraction CentiNum / CentiDen (100 / 125 = 4 / 5).
CentiNum(n, area) ==
    IF area.exp >= 2 THEN n * area.num ELSE n * area.num * 2^(2 - area.exp)
CentiDen(area) == IF area.exp >= 2 THEN 5 * 2^(area.exp - 2) ELSE 5

\* round(n * area, 2) in hundredths, for 0 <= n < 2^14 and a double area
\* with n * area.num < 2^30. Off a decimal tie the rounding errors of the
\* double (below 2^-51 of its value) cannot change the nearest hundredth; at a
\* tie round() goes to the side the double is on, and to the even hundredth
\* if the double is the tie itself.
RoundProduct2(n, area) ==
    IF n = 0 \/ area.num = 0 THEN 0
    ELSE LET a == area.num
             u == BinadeUp(a, 0)
             d == BinadeDown(a, 0)
             c == DivRemainder(a, 52 - d + u)
             k == ExtraBits(n, a, u, d, c, 0)
             D == 125 * ProductError(n, c, k) + n * c
             N == CentiNum(n, area)
             Dn == CentiDen(area)
         IN  IF Dn % 2 = 0 /\ N % Dn = Dn \div 2 /\ D # 0
             THEN (N \div Dn) + (IF D > 0 THEN 1 ELSE 0)
             ELSE RoundHalfEven(N, Dn)

(* ------------------------- float32 arithmetic -------------------------- *)
NaN == [nan |-> TRUE, m |-> 0, e |-> 0]
F32(m, e) == [nan |-> FALSE, m |-> m, e |-> e]

RECURSIVE BitLen(_)
BitLen(n) == IF n = 0 THEN 0 ELSE 1 + BitLen(n \div 2)

\* n rounded to 24 significant bits, ties to even.
Round24(n) ==
    LET s == BitLen(n) - 24
    IN  IF s <= 0 THEN n ELSE RoundHalfEven(n, 2^s) * 2^s

RECURSIVE ScaleExp(_, _, _)
ScaleExp(a, b, k) == IF a * 2^k >= b * 2^23 THEN k ELSE ScaleExp(a, b, k + 1)

\* a / b in float32 for integers 0 < a < 2^24, 0 < b < 128 with a/b < 2^24:
\* the quotient correctly rounded to 24 bits.
F32Div(a, b) ==
    LET k == ScaleExp(a, b, 0)
    IN  F32(RoundHalfEven(a * 2^k, b), k)

\* d * f in float32 for an integer 0 <= d < 128 and a float f.
F32Mul(d, f) == IF f.nan THEN NaN ELSE F32(Round24(d * f.m), f.e)

(* -------------------------- AmenityClassifier -------------------------- *)
\* Python's None category.
NoneCat == "None"

\* amenity_groups, in the dict's iteration (insertion) order.
amenity_groups == <<
    <<"food", <<
        "bar", "biergarten", "cafe", "drinking_water", "fast_food", "food_court",
        "ice_cream", "pub", "restaurant">> >>,
    <<"education", <<
        "college", "driving_school", "kindergarten", "language_school", "library",
        "toy_library", "music_school", "school", "university">> >>,
    <<"transportation", <<
        "bicycle_parking", "bicycle_repair_station", "bicycle_rental",
        "boat_rental", "boat_sharing", "bus_station", "car_rental", "car_sharing",
        "car_wash", "vehicle_inspection", "charging_station", "ferry_terminal",
        "fuel", "grit_bin", "motorcycle_parking", "parking", "parking_entrance",
        "parking_space", "taxi", "kick-scooter_rental">> >>,
    <<"financial", <<
        "atm", "bank", "bureau_de_change">> >>,
    <<"healthcare", <<
        "baby_hatch", "clinic", "dentist", "doctors", "hospital", "nursing_home",
        "pharmacy", "social_facility", "veterinary">> >>,
    <<"entertainment", <<
        "arts_centre", "brothel", "casino", "cinema", "community_centre",
        "conference_centre", "events_venue", "fountain", "gambling", "love_hotel",
        "nightclub", "planetarium", "public_bookcase", "social_centre", "stripclub",
        "studio", "swingerclub", "theatre">> >>,
    <<"others", <<
        "animal_boarding", "animal_breeding", "animal_shelter", "baking_oven",
        "childcare", "clock", "crematorium", "dive_centre", "funeral_hall",
        "grave_yard", "gym", "hunting_stand", "internet_cafe", "kitchen",
        "kneipp_water_cure", "lounger", "marketplace", "monastery", "photo_booth",
        "place_of_mourning", "place_of_worship", "public_bath", "public_building",
        "refugee_site", "vending_machine", "user defined">> >>,
    <<"public_service", <<
        "courthouse", "embassy", "fire_station", "police", "post_box", "post_depot",
        "post_office", "prison", "ranger_station", "townhall">> >>,
    <<"facilities", <<
        "bbq", "bench", "dog_toilet", "give_box", "shelter", "shower", "telephone",
        "toilets", "water_point", "watering_place">> >>,
    <<"waste_management", <<
        "sanitary_dump_station", "recycling", "waste_basket", "waste_disposal",
        "waste_transfer_station">> >> >>

SeqToSet(s) == {s[i] : i \in 1 .. Len(s)}

\* for group, amenities in amenity_groups.items(): first list holding the tag.
RECURSIVE FirstGroup(_, _)
FirstGroup(string, i) ==
    IF i > Len(amenity_groups) THEN NoneCat
    ELSE IF string \in SeqToSet(amenity_groups[i][2]) THEN amenity_groups[i][1]
    ELSE FirstGroup(string, i + 1)

\* Mutant: the loop misses the first word list.
amen_groupSkipsFirst(string) == FirstGroup(string, 2)

amen_group(string) == FirstGroup(string, 1)

\* amenity_cost[x] / sq_ft_cost: the floor areas of the cost table.
amenity_cost(x) ==
    CASE x = "food" -> 3500
      [] x = "education" -> 173727
      [] x = "transportation" -> 360
      [] x = "financial" -> 3400
      [] x = "healthcare" -> 300000
      [] x = "entertainment" -> 40000
      [] x = "others" -> 3000
      [] x = "public_service" -> 11000
      [] x = "facilities" -> 10
      [] x = "waste_management" -> 4000
      [] x = NoneCat -> 0

Groups == {amenity_groups[i][1] : i \in 1 .. Len(amenity_groups)}
GroupTags(g) == UNION {SeqToSet(amenity_groups[i][2]) : i \in {j \in 1 .. Len(amenity_groups) : amenity_groups[j][1] = g}}
ListedTags == UNION {GroupTags(g) : g \in Groups}

\* re.findall(r'"amenity"=>"(.*?)"', x): the literal the pattern starts with,
\* and the two characters that end or break the lazy group ('.' matches no
\* newline).
AmenityKey == "\"amenity\"=>\""
Quote == "\""
Newline == "\n"
CharAt(x, j) == SubSeq(x, j, j)

\* The position of the quote that closes a group opened at j, 0 if a newline
\* or the end of the string comes first.
RECURSIVE ClosingQuote(_, _)
ClosingQuote(x, j) ==
    IF j > Len(x) THEN 0
    ELSE IF CharAt(x, j) = Quote THEN j
    ELSE IF CharAt(x, j) = Newline THEN 0
    ELSE ClosingQuote(x, j + 1)

\* match[0] of re.findall: the group of the leftmost match from position i.
RECURSIVE FirstMatch(_, _)
FirstMatch(x, i) ==
    IF i + Len(AmenityKey) - 1 > Len(x) THEN [found |-> FALSE, group |-> ""]
    ELSE IF SubSeq(x, i, i + Len(AmenityKey) - 1) = AmenityKey
         THEN LET j == ClosingQuote(x, i + Len(AmenityKey))
              IN  IF j # 0
                  THEN [found |-> TRUE, group |-> SubSeq(x, i + Len(AmenityKey), j - 1)]
                  ELSE FirstMatch(x, i + 1)
         ELSE FirstMatch(x, i + 1)

\* Mutant: the last match is used instead of the first.
RECURSIVE LastMatchFrom(_, _, _)
LastMatchFrom(x, i, best) ==
    IF i + Len(AmenityKey) - 1 > Len(x) THEN best
    ELSE IF SubSeq(x, i, i + Len(AmenityKey) - 1) = AmenityKey
            /\ ClosingQuote(x, i + Len(AmenityKey)) # 0
         THEN LET j == ClosingQuote(x, i + Len(AmenityKey))
              IN  LastMatchFrom(x, j + 1,
                      [found |-> TRUE, group |-> SubSeq(x, i + Len(AmenityKey), j - 1)])
         ELSE LastMatchFrom(x, i + 1, best)
old_amen_groupLastMatch(x) ==
    LET match == LastMatchFrom(x, 1, [found |-> FALSE, group |-> ""])
    IN  IF match.found THEN amen_group(match.group) ELSE NoneCat

old_amen_group(x) ==
    IF x \in STRING
    THEN LET match == FirstMatch(x, 1)
         IN  IF match.found THEN amen_group(match.group) ELSE NoneCat
    ELSE NoneCat

(* ------------------------------- state --------------------------------- *)
VARIABLES
    \* inputs of one impact() call
    backend,        \* "gdal" or "rio": which module's impact() runs
    flood,          \* floodmap_array
    pop_in,         \* the population raster warped onto the flood grid
    crop_in,        \* the cropland raster warped onto the flood grid
    points,         \* the rows of gpd.read_file(osm_file): [x, y, tag]
    tag_column,     \* the layer's tag column: 'amenity', 'other_tags' or 'fclass'
    pixel_area,     \* hectares per pixel, the double [num, exp]
    want_cost,      \* cost_file is not None
    broken,         \* the channel inputs that cannot be read
    nan_u8,         \* what this build's float -> uint8 cast makes of NaN
    \* the thread pool
    fut,            \* future state per task
    pop_res,        \* get_population's return value
    crop_res,       \* get_crop's return value
    osm_res,        \* get_osm_table's return value
    osm_gdf,        \* get_osm_table's local frame
    lookups,        \* history: the [y, x] index pairs used on floodmap_array
    \* the main thread
    pc,
    impact_array,   \* band -> cell -> uint8
    pop_count, max_pop, crop_hectares, amenities_df, location_df,
    max_osm_cost,   \* [nan, v]
    wb,             \* next band of the write loop
    impact_file,    \* [created, written, bands]
    cost_out,       \* [created, written, data]
    agg,            \* the printed figures
    \* consecutive calls (the two test scripts run impact() on the same paths)
    run_no, prev,
    \* history: the computations that divided by zero so far in this call
    zero_div

inputs == <<flood, pop_in, crop_in, points, tag_column, pixel_area, want_cost, broken, nan_u8>>
pool == <<fut, pop_res, crop_res, osm_res, osm_gdf, lookups>>
main == <<pc, impact_array, pop_count, max_pop, crop_hectares, amenities_df,
          location_df, max_osm_cost, wb, impact_file, cost_out, agg>>
vars == <<backend, inputs, pool, main, run_no, prev, zero_div>>

Tasks == {"pop", "crop", "osm"}
Backends == {"gdal", "rio"}
Bands == 0 .. 3

ZeroRaster == [c \in Cells |-> 0]
ZeroCost == [nan |-> FALSE, half_sqft |-> 0, crop |-> 0]
NoFile == [created |-> FALSE, written |-> 0, bands |-> [b \in Bands |-> ZeroRaster]]
NoCostFile == [created |-> FALSE, written |-> FALSE, data |-> [c \in Cells |-> ZeroCost]]
\* A dollar amount a * sq_ft_cost + p * pop_impact_cost + h * cost_per_hectare
\* / 100, kept by its three coefficients, and the sum of two amounts.
Dollars(a, p, h) == [sq_ft |-> a, persons |-> p, centiha |-> h]
AddDollars(x, y) == [sq_ft |-> x.sq_ft + y.sq_ft, persons |-> x.persons + y.persons,
                     centiha |-> x.centiha + y.centiha]
NoAgg == [building_cost |-> 0, residential_people |-> 0, crop_centiha |-> 0,
          total |-> Dollars(0, 0, 0)]

(* ---------------------------- ChannelComputer -------------------------- *)
RECURSIVE SumOver(_, _)
SumOver(f, S) ==
    IF S = {} THEN 0
    ELSE LET c == CHOOSE c \in S : TRUE IN f[c] + SumOver(f, S \ {c})

\* normalize_array: (array - min_val) * (high / (np.max(array) - min_val)) in
\* float32. With max == min the factor is 255 / 0.0 = inf and 0 * inf = nan.
normalize_array(array, high) ==
    LET min_val == Min({array[c] : c \in Cells})
        max_val == Max({array[c] : c \in Cells})
    IN  IF max_val = min_val THEN [c \in Cells |-> NaN]
        ELSE LET factor == F32Div(high, max_val - min_val)
             IN  [c \in Cells |-> F32Mul(array[c] - min_val, factor)]

\* np.max(array) - min_val, the divisor of normalize_array.
NormalizeDivisor(array) ==
    Max({array[c] : c \in Cells}) - Min({array[c] : c \in Cells})

\* pop_array[np.logical_not(np.isin(floodmap_array, 1))] = 0
MaskedPop(floodmap_array, pop_array) ==
    [c \in Cells |-> IF floodmap_array[c] = 1 THEN pop_array[c] ELSE 0]

get_population(floodmap_array, pop_array) ==
    LET masked == MaskedPop(floodmap_array, pop_array)
    IN  [pop_count |-> SumOver(masked, Cells),
         normalized |-> normalize_array(masked, 255),
         max_value |-> Max({masked[c] : c \in Cells})]

\* Mutant: every flooded cell of a nonzero class counts as cropland.
intersection_arrayAnyClass(flood_array, crop_array) ==
    [c \in Cells |-> IF flood_array[c] = 1 /\ crop_array[c] # 0 THEN 1 ELSE 0]

\* np.where((flood_array == 1) & (crop_array == 2), 1, 0)
intersection_array(flood_array, crop_array) ==
    [c \in Cells |-> IF flood_array[c] = 1 /\ crop_array[c] = 2 THEN 1 ELSE 0]

\* rio only: crop_array[crop_array < 0] = 0 (the array is uint8).
ClampCrop(b, crop_array) ==
    [c \in Cells |-> IF b = "rio" /\ crop_array[c] < 0 THEN 0 ELSE crop_array[c]]

\* round(np.count_nonzero(intersection_array) * pixel_area, 2) and
\* intersection_array * 255
get_crop(b, flood_array, crop_array, area) ==
    LET inter == intersection_array(flood_array, ClampCrop(b, crop_array))
        n == Cardinality({c \in Cells : inter[c] # 0})
    IN  [hectares |-> RoundProduct2(n, area),
         channel |-> [c \in Cells |-> inter[c] * 255]]

(* ------------------------------ GridIndexer ---------------------------- *)
\* The geotransform entries get_osm_table reads: flood_geo[0], [1], [3], [5]
\* of GDAL's tuple, flood_geo[2], [0], [5], [4] of rasterio's Affine
\* (Python indices; the tuples here are 1-based).
GeoOriginX(b) == IF b = "gdal" THEN GdalGeoTransform[1] ELSE RioTransform[3]
GeoPixelW(b) == IF b = "gdal" THEN GdalGeoTransform[2] ELSE RioTransform[1]
GeoOriginY(b) == IF b = "gdal" THEN GdalGeoTransform[4] ELSE RioTransform[6]
GeoPixelH(b) == IF b = "gdal" THEN GdalGeoTransform[6] ELSE RioTransform[5]

\* 12348543360 / 10000 = AreaFactorNum / 125.
AreaFactorNum == 154356792

\* pixel_area = abs(flood_geo[5] * flood_geo[1]) * 12348543360 / 10000
\* (rasterio: flood_geo[0] * flood_geo[4]), the pixel sizes being the
\* geotransform's in units of 2^-unit degrees. The product of the two sizes
\* and its product with 12348543360 are exact in a double (they are below
\* 2^53 times a power of two); the division rounds.
PixelArea(b, unit) ==
    LET sizes == GeoPixelH(b) * GeoPixelW(b)
        abs == IF sizes < 0 THEN -sizes ELSE sizes
    IN  Dyadic(abs * AreaFactorNum, 2 * unit)

\* ((geometry.x - originX) / pixelW).round().astype(int), and the same for y.
PixelX(b, p) == RoundHalfEven(p.x - GeoOriginX(b), GeoPixelW(b))
PixelY(b, p) == RoundHalfEven(p.y - GeoOriginY(b), GeoPixelH(b))

\* Mutant: the lower bounds of the filter are missing.
InRasterNoLowerBound(r) == r.x < Width /\ r.y < Height

\* (x >= 0) & (x < shape[1]) & (y >= 0) & (y < shape[0])
InRaster(r) == r.x >= 0 /\ r.x < Width /\ r.y >= 0 /\ r.y < Height

RECURSIVE SelectRows(_, _)
SelectRows(rows, keep) ==
    IF rows = <<>> THEN <<>>
    ELSE IF keep[1] THEN <<Head(rows)>> \o SelectRows(Tail(rows), Tail(keep))
    ELSE SelectRows(Tail(rows), Tail(keep))

IndexRows(b, layer) ==
    LET all == [i \in 1 .. Len(layer) |->
                  [x |-> PixelX(b, layer[i]), y |-> PixelY(b, layer[i]),
                   tag |-> layer[i].tag, amenity |-> NoneCat, cost |-> 0]]
    IN  SelectRows(all, [i \in 1 .. Len(all) |-> InRaster(all[i])])

\* 'amenity' column: amen_group; else 'other_tags': old_amen_group; else
\* 'fclass': amen_group.
ClassifyRows(column, rows) ==
    [i \in 1 .. Len(rows) |->
        LET a == IF column = "amenity" THEN amen_group(rows[i].tag)
                 ELSE IF column = "other_tags" THEN old_amen_group(rows[i].tag)
                 ELSE amen_group(rows[i].tag)
        IN  [rows[i] EXCEPT !.amenity = a, !.cost = amenity_cost(a)]]

\* numpy's array[y, x] with integer indices: a negative index counts from the
\* end, an index outside [-n, n) raises IndexError.
IndexOk(i, n) == -n <= i /\ i < n
Wrap(i, n) == IF i < 0 THEN i + n ELSE i
FloodAt(floodmap_array, y, x) == floodmap_array[<<Wrap(y, Height), Wrap(x, Width)>>]

\* Mutant: any nonzero flood value counts as flooded.
FloodedRowsNonzero(floodmap_array, rows) ==
    [i \in 1 .. Len(rows) |-> FloodAt(floodmap_array, rows[i].y, rows[i].x) # 0]

\* floodmap_array[osm_gdf['y'], osm_gdf['x']] == 1
FloodedRows(floodmap_array, rows) ==
    [i \in 1 .. Len(rows) |-> FloodAt(floodmap_array, rows[i].y, rows[i].x) = 1]

\* .loc[mask, 'amenity'].value_counts(): None is not counted.
CountTable(rows) ==
    [g \in Groups |-> Cardinality({i \in 1 .. Len(rows) : rows[i].amenity = g})]

(* ------------------------------ the tasks ------------------------------ *)
Finished(t) == fut[t] \in {"done", "failed"}

\* executor.submit(...): with max_workers=3 every submitted task gets a worker
\* at once.
SubmitPop ==
    /\ pc = "submit_pop"
    /\ fut' = [fut EXCEPT !["pop"] = "running"]
    /\ pc' = "submit_crop"
    /\ UNCHANGED <<backend, inputs, pop_res, crop_res, osm_res, osm_gdf, lookups,
                   impact_array, pop_count, max_pop, crop_hectares, amenities_df,
                   location_df, max_osm_cost, wb, impact_file, cost_out, agg,
                   run_no, prev, zero_div>>

SubmitCrop ==
    /\ pc = "submit_crop"
    /\ fut' = [fut EXCEPT !["crop"] = "running"]
    /\ pc' = "submit_osm"
    /\ UNCHANGED <<backend, inputs, pop_res, crop_res, osm_res, osm_gdf, lookups,
                   impact_array, pop_count, max_pop, crop_hectares, amenities_df,
                   location_df, max_osm_cost, wb, impact_file, cost_out, agg,
                   run_no, prev, zero_div>>

SubmitOsm ==
    /\ pc = "submit_osm"
    /\ fut' = [fut EXCEPT !["osm"] = "running"]
    /\ pc' = "result_pop"
    /\ UNCHANGED <<backend, inputs, pop_res, crop_res, osm_res, osm_gdf, lookups,
                   impact_array, pop_count, max_pop, crop_hectares, amenities_df,
                   location_df, max_osm_cost, wb, impact_file, cost_out, agg,
                   run_no, prev, zero_div>>

\* get_population on its worker; an unreadable raster raises.
RunPopulation ==
    /\ fut["pop"] = "running"
    /\ IF "pop" \in broken
       THEN /\ fut' = [fut EXCEPT !["pop"] = "failed"]
            /\ UNCHANGED pop_res
            /\ UNCHANGED zero_div
       ELSE /\ pop_res' = get_population(flood, pop_in)
            /\ fut' = [fut EXCEPT !["pop"] = "done"]
            /\ zero_div' = IF NormalizeDivisor(MaskedPop(flood, pop_in)) = 0
                           THEN zero_div \cup {"normalize_array"}
                           ELSE zero_div
    /\ UNCHANGED <<backend, inputs, crop_res, osm_res, osm_gdf, lookups, main,
                   run_no, prev>>

\* Mutant: the cropland task stores its band into the shared array itself.
RunCropWritesBand ==
    /\ fut["crop"] = "running"
    /\ IF "crop" \in broken
       THEN /\ fut' = [fut EXCEPT !["crop"] = "failed"]
            /\ UNCHANGED <<crop_res, impact_array>>
       ELSE /\ crop_res' = get_crop(backend, flood, crop_in, pixel_area)
            /\ impact_array' = [impact_array EXCEPT ![1] =
                                  get_crop(backend, flood, crop_in, pixel_area).channel]
            /\ fut' = [fut EXCEPT !["crop"] = "done"]
    /\ UNCHANGED <<backend, inputs, pop_res, osm_res, osm_gdf, lookups, pc,
                   pop_count, max_pop, crop_hectares, amenities_df, location_df,
                   max_osm_cost, wb, impact_file, cost_out, agg,
                   run_no, prev, zero_div>>

\* get_crop on its worker.
RunCrop ==
    /\ fut["crop"] = "running"
    /\ IF "crop" \in broken
       THEN /\ fut' = [fut EXCEPT !["crop"] = "failed"]
            /\ UNCHANGED crop_res
       ELSE /\ crop_res' = get_crop(backend, flood, crop_in, pixel_area)
            /\ fut' = [fut EXCEPT !["crop"] = "done"]
    /\ UNCHANGED <<backend, inputs, pop_res, osm_res, osm_gdf, lookups, main,
                   run_no, prev, zero_div>>

\* get_osm_table, first part: read the layer, pixel coordinates, bounds filter.
OsmIndex ==
    /\ fut["osm"] = "running"
    /\ IF "osm" \in broken
       THEN /\ fut' = [fut EXCEPT !["osm"] = "failed"]
            /\ UNCHANGED osm_gdf
       ELSE /\ osm_gdf' = IndexRows(backend, points)
            /\ fut' = [fut EXCEPT !["osm"] = "indexed"]
    /\ UNCHANGED <<backend, inputs, pop_res, crop_res, osm_res, lookups, main,
                   run_no, prev, zero_div>>

\* get_osm_table, second part: the 'amenity' and 'cost' columns.
OsmClassify ==
    /\ fut["osm"] = "indexed"
    /\ osm_gdf' = ClassifyRows(tag_column, osm_gdf)
    /\ fut' = [fut EXCEPT !["osm"] = "classified"]
    /\ UNCHANGED <<backend, inputs, pop_res, crop_res, osm_res, lookups, main,
                   run_no, prev, zero_div>>

\* get_osm_table, last part: the flood-mask lookups and the two tables.
OsmSelect ==
    /\ fut["osm"] = "classified"
    /\ lookups' = lookups \cup {<<osm_gdf[i].y, osm_gdf[i].x>> : i \in 1 .. Len(osm_gdf)}
    /\ IF \A i \in 1 .. Len(osm_gdf) :
              IndexOk(osm_gdf[i].y, Height) /\ IndexOk(osm_gdf[i].x, Width)
       THEN LET kept == SelectRows(osm_gdf, FloodedRows(flood, osm_gdf))
            IN  /\ osm_res' = [amenities_df |-> CountTable(kept), location_df |-> kept]
                /\ fut' = [fut EXCEPT !["osm"] = "done"]
       ELSE /\ fut' = [fut EXCEPT !["osm"] = "failed"]
            /\ UNCHANGED osm_res
    /\ UNCHANGED <<backend, inputs, pop_res, crop_res, osm_gdf, main, run_no, prev, zero_div>>

(* --------------------------- ImpactCompositor -------------------------- *)
\* A float stored into the uint8 array: truncated; NaN has no defined image.
ToUint8(f) == IF f.nan THEN nan_u8 ELSE (f.m \div 2^(f.e)) % 256

\* Mutant: the population result is read without waiting for the task.
ResultPopNoWait ==
    /\ pc = "result_pop"
    /\ IF fut["pop"] = "failed"
       THEN /\ pc' = "unwind"
            /\ UNCHANGED <<impact_array, pop_count, max_pop>>
       ELSE /\ pop_count' = pop_res.pop_count
            /\ impact_array' = [impact_array EXCEPT ![0] =
                                  [c \in Cells |-> ToUint8(pop_res.normalized[c])]]
            /\ max_pop' = pop_res.max_value
            /\ pc' = "result_crop"
    /\ UNCHANGED <<backend, inputs, pool, crop_hectares, amenities_df, location_df,
                   max_osm_cost, wb, impact_file, cost_out, agg, run_no, prev, zero_div>>

\* pop_count, impact_array[:,:,0], max_pop = future_pop.result()
ResultPop ==
    /\ pc = "result_pop"
    /\ Finished("pop")
    /\ IF fut["pop"] = "failed"
       THEN /\ pc' = "unwind"
            /\ UNCHANGED <<impact_array, pop_count, max_pop>>
       ELSE /\ pop_count' = pop_res.pop_count
            /\ impact_array' = [impact_array EXCEPT ![0] =
                                  [c \in Cells |-> ToUint8(pop_res.normalized[c])]]
            /\ max_pop' = pop_res.max_value
            /\ pc' = "result_crop"
    /\ UNCHANGED <<backend, inputs, pool, crop_hectares, amenities_df, location_df,
                   max_osm_cost, wb, impact_file, cost_out, agg, run_no, prev, zero_div>>

\* Mutant: a failed cropland task is swallowed and its band left empty.
ResultCropBestEffort ==
    /\ pc = "result_crop"
    /\ Finished("crop")
    /\ IF fut["crop"] = "failed"
       THEN /\ pc' = "result_osm"
            /\ UNCHANGED <<impact_array, crop_hectares>>
       ELSE /\ crop_hectares' = crop_res.hectares
            /\ impact_array' = [impact_array EXCEPT ![1] =
                                  [c \in Cells |-> crop_res.channel[c] % 256]]
            /\ pc' = "result_osm"
    /\ UNCHANGED <<backend, inputs, pool, pop_count, max_pop, amenities_df,
                   location_df, max_osm_cost, wb, impact_file, cost_out, agg,
                   run_no, prev, zero_div>>

\* crop_hectares, impact_array[:,:,1] = future_crop.result()
ResultCrop ==
    /\ pc = "result_crop"
    /\ Finished("crop")
    /\ IF fut["crop"] = "failed"
       THEN /\ pc' = "unwind"
            /\ UNCHANGED <<impact_array, crop_hectares>>
       ELSE /\ crop_hectares' = crop_res.hectares
            /\ impact_array' = [impact_array EXCEPT ![1] =
                                  [c \in Cells |-> crop_res.channel[c] % 256]]
            /\ pc' = "result_osm"
    /\ UNCHANGED <<backend, inputs, pool, pop_count, max_pop, amenities_df,
                   location_df, max_osm_cost, wb, impact_file, cost_out, agg,
                   run_no, prev, zero_div>>

\* amenities_df, location_df = future_amenities.result()
ResultOsm ==
    /\ pc = "result_osm"
    /\ Finished("osm")
    /\ IF fut["osm"] = "failed"
       THEN /\ pc' = "unwind"
            /\ UNCHANGED <<amenities_df, location_df>>
       ELSE /\ amenities_df' = osm_res.amenities_df
            /\ location_df' = osm_res.location_df
            /\ pc' = "exit"
    /\ UNCHANGED <<backend, inputs, pool, impact_array, pop_count, max_pop,
                   crop_hectares, max_osm_cost, wb, impact_file, cost_out, agg,
                   run_no, prev, zero_div>>

\* Leaving the with block: shutdown(wait=True) waits for every task, then the
\* pending exception, if any, leaves impact().
ExecutorExit ==
    /\ pc \in {"exit", "unwind"}
    /\ \A t \in Tasks : Finished(t)
    /\ pc' = IF pc = "unwind" THEN "failed" ELSE "scatter"
    /\ UNCHANGED <<backend, inputs, pool, impact_array, pop_count, max_pop,
                   crop_hectares, amenities_df, location_df, max_osm_cost, wb,
                   impact_file, cost_out, agg, run_no, prev, zero_div>>

\* location_df['cost'].max(): nan for an empty frame.
MaxCost(df) ==
    IF df = <<>> THEN [nan |-> TRUE, v |-> 0]
    ELSE [nan |-> FALSE, v |-> Max({df[i].cost : i \in 1 .. Len(df)})]

\* cost * 255 / max_osm_cost stored as uint8 (0 * 255 / 0.0 is nan; over an
\* empty frame nothing is divided).
Band2Value(cost, mx) ==
    IF mx.nan \/ mx.v = 0 THEN nan_u8 ELSE ((cost * 255) \div mx.v) % 256

\* Mutant: of several values for one cell the first one stays.
RECURSIVE ScatterWriteFirstWins(_, _, _)
ScatterWriteFirstWins(band, df, mx) ==
    IF df = <<>> THEN band
    ELSE LET rest == ScatterWriteFirstWins(band, Tail(df), mx)
         IN  [rest EXCEPT ![<<Wrap(df[1].y, Height), Wrap(df[1].x, Width)>>] =
                 Band2Value(df[1].cost, mx)]

\* array[rows, cols] = values: the assignments in index order, the last one
\* to a cell stays.
RECURSIVE ScatterWrite(_, _, _)
ScatterWrite(band, df, mx) ==
    IF df = <<>> THEN band
    ELSE ScatterWrite(
             [band EXCEPT ![<<Wrap(df[1].y, Height), Wrap(df[1].x, Width)>>] =
                 Band2Value(df[1].cost, mx)],
             Tail(df), mx)

\* indices, max_osm_cost, impact_array[indices[1], indices[0], 2] = ...
Scatter ==
    /\ pc = "scatter"
    /\ max_osm_cost' = MaxCost(location_df)
    /\ IF \A i \in 1 .. Len(location_df) :
              IndexOk(location_df[i].y, Height) /\ IndexOk(location_df[i].x, Width)
       THEN /\ impact_array' = [impact_array EXCEPT ![2] =
                                  ScatterWrite(impact_array[2], location_df,
                                               MaxCost(location_df))]
            /\ pc' = "alpha"
            /\ zero_div' = IF location_df # <<>> /\ MaxCost(location_df).v = 0
                           THEN zero_div \cup {"scatter"}
                           ELSE zero_div
       ELSE /\ pc' = "failed"
            /\ UNCHANGED <<impact_array, zero_div>>
    /\ UNCHANGED <<backend, inputs, pool, pop_count, max_pop, crop_hectares,
                   amenities_df, location_df, wb, impact_file, cost_out, agg,
                   run_no, prev>>

\* np.count_nonzero(impact_array, axis=2) != 0
AnyNonzero(arr, c) == \E b \in Bands : arr[b][c] # 0

\* Mutant: alpha is derived from bands 0 and 1 only.
AlphaBandSkipsBand2(arr) ==
    [c \in Cells |-> IF arr[0][c] # 0 \/ arr[1][c] # 0 THEN 255 ELSE arr[3][c]]

\* impact_array[(np.count_nonzero(impact_array, axis=2) != 0), 3] = 255
AlphaBand(arr) == [c \in Cells |-> IF AnyNonzero(arr, c) THEN 255 ELSE arr[3][c]]

Alpha ==
    /\ pc = "alpha"
    /\ impact_array' = [impact_array EXCEPT ![3] = AlphaBand(impact_array)]
    /\ pc' = "create_impact"
    /\ UNCHANGED <<backend, inputs, pool, pop_count, max_pop, crop_hectares,
                   amenities_df, location_df, max_osm_cost, wb, impact_file,
                   cost_out, agg, run_no, prev, zero_div>>

\* create_disk_dataset(..., 4, GDT_Byte) / rasterio.open(impact_file, 'w', ...)
CreateImpactFile ==
    /\ pc = "create_impact"
    /\ impact_file' = [created |-> TRUE, written |-> 0,
                       bands |-> [b \in Bands |-> ZeroRaster]]
    /\ wb' = 0
    /\ pc' = "write_band"
    /\ UNCHANGED <<backend, inputs, pool, impact_array, pop_count, max_pop,
                   crop_hectares, amenities_df, location_df, max_osm_cost,
                   cost_out, agg, run_no, prev, zero_div>>

\* for i in range(4): write band i + 1
WriteBand ==
    /\ pc = "write_band"
    /\ impact_file' = [impact_file EXCEPT !.written = wb + 1,
                                          !.bands[wb] = impact_array[wb]]
    /\ wb' = wb + 1
    /\ pc' = IF wb = 3 THEN "costs" ELSE "write_band"
    /\ UNCHANGED <<backend, inputs, pool, impact_array, pop_count, max_pop,
                   crop_hectares, amenities_df, location_df, max_osm_cost,
                   cost_out, agg, run_no, prev, zero_div>>

\* Mutant: the cost is summed over the pixels of band 2, one point (the last)
\* per pixel.
RECURSIVE CostSumPerPixel(_)
CostSumPerPixel(df) ==
    IF df = <<>> THEN 0
    ELSE IF \E i \in 2 .. Len(df) : df[i].x = df[1].x /\ df[i].y = df[1].y
         THEN CostSumPerPixel(Tail(df))
         ELSE df[1].cost + CostSumPerPixel(Tail(df))

RECURSIVE CostSum(_)
CostSum(df) == IF df = <<>> THEN 0 ELSE df[1].cost + CostSum(Tail(df))

\* building_cost = location_df['cost'].sum(); residential_cost = pop_count *
\* pop_impact_cost; crop_impact_cost = crop_hectares * cost_per_hectare. Each
\* figure is kept as the multiple of its rate.
CostDerivation ==
    /\ pc = "costs"
    /\ agg' = [agg EXCEPT !.building_cost = CostSum(location_df),
                          !.residential_people = pop_count,
                          !.crop_centiha = crop_hectares]
    /\ pc' = "write_cost"
    /\ UNCHANGED <<backend, inputs, pool, impact_array, pop_count, max_pop,
                   crop_hectares, amenities_df, location_df, max_osm_cost, wb,
                   impact_file, cost_out, run_no, prev, zero_div>>

(* ------------------------------ cost raster ---------------------------- *)
\* pop_impact_cost = 326.5 * 8.25: 326.5 sq ft per person, 653 half sq ft.
PersonHalfSqft == 653
\* cost_per_hectare = 1071.6 * (1 - 0.243) = 811.2012 dollars, in 1/10000 $.
CostPerHectareE4 == 8112012
\* Half of sq_ft_cost (8.25 / 2 = 4.125 dollars), in 1/10000 $.
HalfSqftCostE4 == 41250

\* cost_array < 0: 4.125 * half_sqft + 811.2012 * crop < 0, in integers.
IsNegative(cell) ==
    /\ ~cell.nan
    /\ cell.half_sqft < 0
    /\ -cell.half_sqft >= ((cell.crop * CostPerHectareE4) \div HalfSqftCostE4) + 1

\* (band0 * max_pop * pop_impact_cost + band1 * cost_per_hectare
\*  + band2 * max_osm_cost) / 255; anything plus nan is nan.
RawCostCell(arr, c, mp, mx) ==
    IF mx.nan THEN [nan |-> TRUE, half_sqft |-> 0, crop |-> 0]
    ELSE [nan |-> FALSE,
          half_sqft |-> PersonHalfSqft * arr[0][c] * mp + 2 * arr[2][c] * mx.v,
          crop |-> arr[1][c]]

\* gdal writes the array as computed; rio first sets negative cells to 0.
CostCell(b, arr, c, mp, mx) ==
    LET raw == RawCostCell(arr, c, mp, mx)
    IN  IF b = "rio" /\ IsNegative(raw) THEN ZeroCost ELSE raw

\* if cost_file is not None: create the one-band float raster and write it.
WriteCost ==
    /\ pc = "write_cost"
    /\ cost_out' = IF want_cost
                   THEN [created |-> TRUE, written |-> TRUE,
                         data |-> [c \in Cells |->
                                     CostCell(backend, impact_array, c, max_pop,
                                              max_osm_cost)]]
                   ELSE cost_out
    /\ pc' = "report"
    /\ UNCHANGED <<backend, inputs, pool, impact_array, pop_count, max_pop,
                   crop_hectares, amenities_df, location_df, max_osm_cost, wb,
                   impact_file, agg, run_no, prev, zero_div>>

\* The prints, the last one of building_cost + residential_cost +
\* crop_impact_cost; impact() returns.
Report ==
    /\ pc = "report"
    /\ agg' = [agg EXCEPT !.total =
                  AddDollars(AddDollars(Dollars(agg.building_cost, 0, 0),
                                        Dollars(0, agg.residential_people, 0)),
                             Dollars(0, 0, agg.crop_centiha))]
    /\ pc' = "done"
    /\ UNCHANGED <<backend, inputs, pool, impact_array, pop_count, max_pop,
                   crop_hectares, amenities_df, location_df, max_osm_cost, wb,
                   impact_file, cost_out, run_no, prev, zero_div>>

(* ------------------------------ start states --------------------------- *)
ZeroArray == [b \in Bands |-> ZeroRaster]
ZeroTable == [g \in Groups |-> 0]
NoPopRes == [pop_count |-> 0, normalized |-> [c \in Cells |-> F32(0, 0)], max_value |-> 0]
NoCropRes == [hectares |-> 0, channel |-> ZeroRaster]
NoOsmRes == [amenities_df |-> ZeroTable, location_df |-> <<>>]
NoMaxCost == [nan |-> FALSE, v |-> 0]
NoPrev == [valid |-> FALSE, backend |-> "gdal", impact |-> NoFile, cost |-> NoCostFile,
           agg |-> NoAgg, amenities_df |-> ZeroTable]

\* impact() is entered: the flood raster is read, pixel_area computed from
\* its geotransform, impact_array allocated.
EnteredLayer(col, b, f, p, c, pts, unit, wc, br, n) ==
    /\ backend = b /\ flood = f /\ pop_in = p /\ crop_in = c /\ points = pts
    /\ tag_column = col
    /\ pixel_area = PixelArea(b, unit) /\ want_cost = wc /\ broken = br /\ nan_u8 = n
    /\ fut = [t \in Tasks |-> "pending"]
    /\ pop_res = NoPopRes /\ crop_res = NoCropRes /\ osm_res = NoOsmRes
    /\ osm_gdf = <<>> /\ lookups = {}
    /\ pc = "submit_pop"
    /\ impact_array = ZeroArray
    /\ pop_count = 0 /\ max_pop = 0 /\ crop_hectares = 0
    /\ amenities_df = ZeroTable /\ location_df = <<>>
    /\ max_osm_cost = NoMaxCost
    /\ wb = 0
    /\ impact_file = NoFile /\ cost_out = NoCostFile
    /\ agg = NoAgg
    /\ run_no = 1 /\ prev = NoPrev
    /\ zero_div = {}

\* The same with a layer that has an 'amenity' column.
Entered(b, f, p, c, pts, unit, wc, br, n) ==
    EnteredLayer("amenity", b, f, p, c, pts, unit, wc, br, n)

\* The second test script calls impact() on the same inputs and output paths,
\* with either backend; the files of the first call are still on disk.
Rerun ==
    /\ pc = "done"
    /\ run_no = 1
    /\ run_no' = 2
    /\ prev' = [valid |-> TRUE, backend |-> backend, impact |-> impact_file,
                cost |-> cost_out, agg |-> agg, amenities_df |-> amenities_df]
    /\ \E b \in Backends : backend' = b
    /\ fut' = [t \in Tasks |-> "pending"]
    /\ pop_res' = NoPopRes /\ crop_res' = NoCropRes /\ osm_res' = NoOsmRes
    /\ osm_gdf' = <<>> /\ lookups' = {}
    /\ pc' = "submit_pop"
    /\ impact_array' = ZeroArray
    /\ pop_count' = 0 /\ max_pop' = 0 /\ crop_hectares' = 0
    /\ amenities_df' = ZeroTable /\ location_df' = <<>>
    /\ max_osm_cost' = NoMaxCost
    /\ wb' = 0
    /\ agg' = NoAgg
    /\ zero_div' = {}
    /\ UNCHANGED <<inputs, impact_file, cost_out>>

(* -------------------------------- inputs ------------------------------- *)
Uniform(v) == [c \in Cells |-> v]
\* A raster with background bg and two cells of the top row set.
TwoCell(bg, v1, v2) ==
    [c \in Cells |-> IF c = <<0, 0>> THEN v1
                     ELSE IF c = <<0, Width - 1>> THEN v2 ELSE bg]

FloodVals == 0 .. MaxFloodVal
PopVals == (-PopNeg) .. PopMax
CropVals == 0 .. MaxCrop
NanCasts == {0, 255}

FloodRasters == {TwoCell(bg, v1, v2) : bg \in FloodVals, v1 \in FloodVals, v2 \in FloodVals}
PopRasters == {TwoCell(bg, v1, v2) : bg \in PopVals, v1 \in PopVals, v2 \in PopVals}
CropRasters == {TwoCell(bg, v1, v2) : bg \in CropVals, v1 \in CropVals, v2 \in CropVals}
\* The size of a coordinate unit: 2^-11, 2^-12 or 2^-13 degrees, that is
\* pixels of 2^-10, 2^-11 and 2^-12 degrees (about 108, 54 and 27 m) and
\* pixel areas of about 1.1776, 0.2944 and 0.0736 ha.
DegreeUnits == {11, 12, 13}

Point(x, y, tag) == [x |-> x, y |-> y, tag |-> tag]
\* Half-pixel coordinates from HalfMargin west/north of the grid to its
\* east/south edge: pixel columns -1 .. Width, rows -1 .. Height.
PointXs == (-HalfMargin) .. (2 * Width)
PointYs == (-2 * Height) .. HalfMargin
OsmTags == {"restaurant", "hospital", "shop"}
AllPoints == {Point(x, y, t) : x \in PointXs, y \in PointYs, t \in OsmTags}
\* The restaurants at a pixel centre of the grid.
CentrePoints == {p \in AllPoints : p.x % 2 = 0 /\ p.y % 2 = 0
                                    /\ p.x \in 0 .. (2 * Width - 2)
                                    /\ p.y \in (2 - 2 * Height) .. 0
                                    /\ p.tag = "restaurant"}
\* Layers of one point anywhere, and of two points of which one is at a
\* pixel centre (so that two points can share a pixel, in either order).
PointLayers ==
    {<<>>} \cup {<<p>> : p \in AllPoints}
    \cup {<<p, q>> : p \in AllPoints, q \in CentrePoints}
    \cup {<<q, p>> : p \in AllPoints, q \in CentrePoints}
\* One point per tag of the word lists, and tags of no list.
UnlistedTags == {"shop", "Restaurant", "bar ", ""}
TagLayers == {<<Point(0, 0, t)>> : t \in ListedTags \cup UnlistedTags}

(* ---------------------------- specifications --------------------------- *)
\* Hand-picked rasters and layers for the whole pipeline: a degenerate, a
\* range-PopMax and an all-negative population raster; no, some and only
\* cropland; no point, one point, two points on one pixel, an unlisted tag,
\* a point outside the grid.
PopCoarse == {Uniform(0), TwoCell(0, PopMax, 2), TwoCell(-1, -PopNeg, -1)}
CropCoarse == {Uniform(0), TwoCell(1, 2, 3), Uniform(2)}
FloodCoarse == {TwoCell(bg, v1, v2) : bg \in {0, 1}, v1 \in {0, 1}, v2 \in {1, MaxFloodVal}}
PointsCoarse == {<<>>,
                 <<Point(2, 0, "restaurant")>>,
                 <<Point(2, 0, "hospital"), Point(2, 0, "restaurant")>>,
                 <<Point(0, 0, "shop")>>,
                 <<Point(-2, 0, "restaurant"), Point(0, -2, "school")>>}
DefaultPop == TwoCell(0, PopMax, 2)
DefaultCrop == TwoCell(1, 2, 3)
DefaultPoints == <<Point(2, 0, "restaurant")>>
DefaultUnit == Min(DegreeUnits)

\* Every input readable, or one unreadable input with the default rasters.
Init ==
    \E b \in Backends, f \in FloodCoarse, p \in PopCoarse, c \in CropCoarse,
       pts \in PointsCoarse, wc \in BOOLEAN, br \in SUBSET Tasks, n \in NanCasts :
        /\ br # {} => (/\ p = DefaultPop /\ c = DefaultCrop /\ pts = DefaultPoints
                       /\ f = Uniform(1) /\ wc /\ n = 0)
        /\ Entered(b, f, p, c, pts, DefaultUnit, wc, br, n)

Next ==
    \/ SubmitPop \/ SubmitCrop \/ SubmitOsm
    \/ RunPopulation \/ RunCrop
    \/ OsmIndex \/ OsmClassify \/ OsmSelect
    \/ ResultPop \/ ResultCrop \/ ResultOsm
    \/ ExecutorExit
    \/ Scatter \/ Alpha
    \/ CreateImpactFile \/ WriteBand
    \/ CostDerivation \/ WriteCost \/ Report

Spec == Init /\ [][Next]_vars

\* Two consecutive calls on the same inputs.
InitTwice ==
    \E b \in Backends, f \in FloodCoarse, p \in PopCoarse, c \in CropCoarse,
       pts \in PointsCoarse, n \in NanCasts :
        Entered(b, f, p, c, pts, DefaultUnit, TRUE, {}, n)

NextTwice == Next \/ Rerun

SpecTwice == InitTwice /\ [][NextTwice]_vars

\* The population channel: every raster of PopRasters under the coarse masks.
InitPop ==
    \E f \in FloodCoarse, p \in PopRasters, n \in NanCasts :
        Entered("gdal", f, p, DefaultCrop, DefaultPoints, DefaultUnit, TRUE, {}, n)

SpecPop == InitPop /\ [][Next]_vars

\* The cropland channel: every raster of CropRasters under every mask of
\* FloodRasters, every pixel size, both backends.
InitCrop ==
    \E b \in Backends, f \in FloodRasters, c \in CropRasters, unit \in DegreeUnits :
        Entered(b, f, DefaultPop, c, DefaultPoints, unit, TRUE, {}, 0)

SpecCrop == InitCrop /\ [][Next]_vars

\* The amenity channel: the layers of PointLayers under four flood masks, and
\* one point per tag on a flooded grid, both backends.
FloodOsm == {Uniform(1), TwoCell(1, 0, 1), TwoCell(0, 1, MaxFloodVal), TwoCell(MaxFloodVal, 1, 0)}
InitOsm ==
    \/ \E f \in FloodOsm, pts \in PointLayers :
          Entered("gdal", f, DefaultPop, DefaultCrop, pts, DefaultUnit, TRUE, {}, 0)
    \/ \E b \in Backends, pts \in TagLayers \cup PointsCoarse :
          Entered(b, Uniform(1), DefaultPop, DefaultCrop, pts, DefaultUnit, TRUE, {}, 0)

SpecOsm == InitOsm /\ [][Next]_vars

\* Older layers: the tag is inside an other_tags blob. Raw values without
\* and with a double quote or a line break; an entry "amenity"=>"v", the same
\* without its opening quote, another key's entry; blobs of one or two
\* entries.
RawValues == {"restaurant", "hospital", "bank", "shop", ""}
QuotedValues == {"bar\"x"}
NewlineValues == {"res\ntaurant", "\nbank"}
LegacyValues == RawValues \cup QuotedValues \cup NewlineValues
Entry(v) == AmenityKey \o v \o Quote
BareEntry(v) == SubSeq(Entry(v), 2, Len(Entry(v)))
OtherEntry == "\"cuisine\"=>\"pizza\""
BlobPrefixes == {"", OtherEntry \o ","}
BlobSuffixes == {"", "," \o OtherEntry, "," \o Entry("hospital"), "\n"}
Blobs ==
    {pre \o Entry(v) \o rest : pre \in BlobPrefixes, v \in RawValues, rest \in BlobSuffixes}
    \cup {Entry(v) \o rest : v \in QuotedValues \cup NewlineValues, rest \in BlobSuffixes}
    \cup {BareEntry(v) : v \in LegacyValues}
    \cup {"", OtherEntry, AmenityKey \o "restaurant", AmenityKey \o "res\ntaurant" \o Quote}
LegacyLayers == {<<Point(0, 0, x)>> : x \in Blobs}
                \cup {<<Point(0, 0, Entry("restaurant") \o "," \o Entry("hospital")),
                        Point(2, 0, x)>> : x \in Blobs}
DirectLayers == {<<Point(0, 0, v)>> : v \in LegacyValues}

\* The legacy parser: other_tags layers, and the same raw values in an
\* 'amenity' or 'fclass' column, on a flooded grid, both backends.
InitLegacy ==
    \/ \E b \in Backends, pts \in LegacyLayers :
          EnteredLayer("other_tags", b, Uniform(1), DefaultPop, DefaultCrop, pts,
                       DefaultUnit, TRUE, {}, 0)
    \/ \E b \in Backends, col \in {"amenity", "fclass"}, pts \in DirectLayers :
          EnteredLayer(col, b, Uniform(1), DefaultPop, DefaultCrop, pts,
                       DefaultUnit, TRUE, {}, 0)

SpecLegacy == InitLegacy /\ [][Next]_vars

(* ================================ claims =============================== *)
\* impact() has passed the alpha step / has returned.
AfterAlpha == pc \in {"create_impact", "write_band", "costs", "write_cost", "report", "done"}
AfterResultPop == pc \in {"result_crop", "result_osm", "exit", "scatter", "alpha"} \/ AfterAlpha
AfterResultCrop == pc \in {"result_osm", "exit", "scatter", "alpha"} \/ AfterAlpha
AfterScatter == pc = "alpha" \/ AfterAlpha
Band012Nonzero(arr, c) == arr[0][c] # 0 \/ arr[1][c] # 0 \/ arr[2][c] # 0

\* C1: once alpha is derived, and in the written raster, band 3 of every pixel
\* is 255 if one of bands 0, 1, 2 is nonzero there and 0 otherwise.
C1_AlphaInvariant ==
    /\ AfterAlpha =>
          \A c \in Cells :
              impact_array[3][c] = IF Band012Nonzero(impact_array, c) THEN 255 ELSE 0
    /\ pc = "done" =>
          \A c \in Cells :
              impact_file.bands[3][c] =
                  IF Band012Nonzero(impact_file.bands, c) THEN 255 ELSE 0

\* A finished run whose raster has a pixel opaque through band 2 alone and a
\* transparent pixel.
C1_Witness ==
    /\ pc = "done"
    /\ \E c \in Cells : /\ impact_file.bands[3][c] = 255
                        /\ impact_file.bands[0][c] = 0
                        /\ impact_file.bands[1][c] = 0
                        /\ impact_file.bands[2][c] # 0
    /\ \E c \in Cells : impact_file.bands[3][c] = 0

\* C2: once a channel task has failed, impact() never gets past the join and
\* neither output file is created or written, whatever the other tasks did.
C2_NoOutputOnFailure ==
    (\E t \in Tasks : fut[t] = "failed") =>
        /\ pc \in {"submit_pop", "submit_crop", "submit_osm", "result_pop",
                   "result_crop", "result_osm", "unwind", "failed"}
        /\ ~impact_file.created /\ impact_file.written = 0
        /\ ~cost_out.created /\ ~cost_out.written

\* The failure of the cropland task has surfaced after the two other tasks
\* completed.
C2_Witness ==
    /\ pc = "failed"
    /\ fut["crop"] = "failed" /\ fut["pop"] = "done" /\ fut["osm"] = "done"

NoFloodedPixel == \A c \in Cells : flood[c] # 1

\* C3 (as claimed): on a flood mask without a flooded pixel the finished run
\* has population count 0, 0 hectares, infrastructure cost 0 and four all-zero
\* bands.
C3_ZeroFloodAllZero ==
    (pc = "done" /\ NoFloodedPixel) =>
        /\ pop_count = 0 /\ crop_hectares = 0 /\ agg.building_cost = 0
        /\ \A b \in Bands : \A c \in Cells : impact_file.bands[b][c] = 0

\* C4: the second of two calls on the same inputs with the same backend
\* leaves the same impact raster, cost raster and figures as the first, for
\* every interleaving of the tasks in either call.
C4_Deterministic ==
    (run_no = 2 /\ pc = "done" /\ prev.backend = backend) =>
        /\ impact_file = prev.impact
        /\ cost_out = prev.cost
        /\ agg = prev.agg
        /\ amenities_df = prev.amenities_df

\* Two finished calls with the same backend and a raster that is not blank.
C4_Witness ==
    /\ run_no = 2 /\ pc = "done" /\ prev.backend = backend
    /\ \E c \in Cells : impact_file.bands[0][c] \notin {0, 255}
    /\ \E c \in Cells : impact_file.bands[2][c] = 255
    /\ agg.building_cost > 0

\* C5 (as claimed): two calls on the same inputs, one per backend, leave equal
\* impact rasters and equal cost rasters.
C5_BackendsEquivalent ==
    (run_no = 2 /\ pc = "done" /\ prev.backend # backend) =>
        /\ impact_file.bands = prev.impact.bands
        /\ cost_out.data = prev.cost.data

(* The pixel of the i-th point of the layer, as get_osm_table computes it. *)
PtCol(i) == PixelX(backend, points[i])
PtRow(i) == PixelY(backend, points[i])
PtInGrid(i) == PtCol(i) \in Cols /\ PtRow(i) \in Rows
PtFlooded(i) == PtInGrid(i) /\ flood[<<PtRow(i), PtCol(i)>>] = 1
PtCost(i) == amenity_cost(amen_group(points[i].tag))
PtIndices == 1 .. Len(points)
RECURSIVE SumCost(_)
SumCost(S) == IF S = {} THEN 0
              ELSE LET i == CHOOSE i \in S : TRUE IN PtCost(i) + SumCost(S \ {i})

\* C6: the flood mask is only ever indexed inside the grid, the frame holds
\* no out-of-grid row once filtered, and in a finished run the count table,
\* the infrastructure cost and band 2 come from in-grid points alone: a point
\* whose pixel is outside the grid adds nothing to any of them.
C6_OutOfBoundsDropped ==
    /\ \A l \in lookups : l[1] \in Rows /\ l[2] \in Cols
    /\ fut["osm"] \in {"indexed", "classified", "done"} =>
          /\ \A i \in 1 .. Len(osm_gdf) : InRaster(osm_gdf[i])
          /\ Len(osm_gdf) = Cardinality({i \in PtIndices : PtInGrid(i)})
    /\ pc = "done" =>
          /\ \A g \in Groups :
                amenities_df[g] <= Cardinality({i \in PtIndices :
                                      PtInGrid(i) /\ amen_group(points[i].tag) = g})
          /\ agg.building_cost <= SumCost({i \in PtIndices : PtInGrid(i)})
          /\ \A c \in Cells :
                impact_file.bands[2][c] # 0 =>
                    \E i \in PtIndices : PtInGrid(i) /\ c = <<PtRow(i), PtCol(i)>>
          /\ (\A i \in PtIndices : ~PtInGrid(i)) =>
                /\ amenities_df = ZeroTable /\ agg.building_cost = 0
                /\ impact_file.bands[2] = ZeroRaster /\ lookups = {}

\* A finished run on a layer with a priced point west or north of the grid
\* (negative pixel index) and a retained point.
C6_Witness ==
    /\ pc = "done"
    /\ \E i \in PtIndices : (PtCol(i) < 0 \/ PtRow(i) < 0) /\ PtCost(i) > 0
    /\ \E i \in PtIndices : PtFlooded(i) /\ PtCost(i) > 0
    /\ agg.building_cost > 0

\* The in-grid points on a flooded pixel, in layer order.
RECURSIVE RetainedFrom(_)
RetainedFrom(i) ==
    IF i > Len(points) THEN <<>>
    ELSE IF PtFlooded(i)
         THEN <<[x |-> PtCol(i), y |-> PtRow(i), tag |-> points[i].tag,
                 amenity |-> amen_group(points[i].tag), cost |-> PtCost(i)]>>
              \o RetainedFrom(i + 1)
         ELSE RetainedFrom(i + 1)
RetainedSet == {i \in PtIndices : PtFlooded(i)}

\* C7: the table get_osm_table returns holds exactly the in-grid points whose
\* pixel has flood value 1, in layer order; the count table, the cost sum, the
\* scaling maximum and band 2 are those of these points alone.
C7_OnlyFloodedRetained ==
    /\ fut["osm"] = "done" =>
          /\ osm_res.location_df = RetainedFrom(1)
          /\ \A g \in Groups :
                osm_res.amenities_df[g] =
                    Cardinality({i \in RetainedSet : amen_group(points[i].tag) = g})
    /\ AfterScatter =>
          /\ max_osm_cost.nan = (RetainedSet = {})
          /\ RetainedSet # {} => max_osm_cost.v = Max({PtCost(i) : i \in RetainedSet})
          /\ \A c \in Cells :
                (\A i \in RetainedSet : c # <<PtRow(i), PtCol(i)>>) =>
                    impact_array[2][c] = 0
    /\ pc = "done" => agg.building_cost = SumCost(RetainedSet)

\* A finished run on a layer with an in-grid hospital on a pixel that is not
\* flooded and a cheaper retained point, which then sets the maximum.
C7_Witness ==
    /\ pc = "done"
    /\ \E i \in PtIndices : PtInGrid(i) /\ ~PtFlooded(i) /\ points[i].tag = "hospital"
    /\ \E i \in PtIndices : PtFlooded(i) /\ points[i].tag = "restaurant"
    /\ max_osm_cost.v = amenity_cost("food")

\* C8 (as claimed): when the masked population array has max # min, band 0 is
\* within 0 .. 255, 255 at every pixel holding the maximum and 0 at every
\* pixel holding the minimum.
C8_NormalizationBounds ==
    AfterResultPop =>
        LET masked == MaskedPop(flood, pop_in)
            mx == Max({masked[c] : c \in Cells})
            mn == Min({masked[c] : c \in Cells})
        IN  mx # mn =>
                \A c \in Cells :
                    /\ impact_array[0][c] \in 0 .. 255
                    /\ masked[c] = mx => impact_array[0][c] = 255
                    /\ masked[c] = mn => impact_array[0][c] = 0

CropCells == {c \in Cells : flood[c] = 1 /\ crop_in[c] = 2}

\* C9 (as claimed): band 1 is 255 on the flooded cells of class 2 and 0
\* elsewhere, and the hectares figure is their number times the pixel area
\* (both in hundredths of a hectare, the product as a fraction).
C9_CropBinaryExactArea ==
    AfterResultCrop =>
        /\ \A c \in Cells : impact_array[1][c] = IF c \in CropCells THEN 255 ELSE 0
        /\ crop_hectares * CentiDen(pixel_area)
              = CentiNum(Cardinality(CropCells), pixel_area)

\* C9 (amended): band 1 is 255 on the flooded cells of class 2 and 0
\* elsewhere, in the array and in the written raster, and the hectares figure
\* is their number times the pixel area rounded to two decimals: it is within
\* half a hundredth of the product.
C9_CropBinaryRoundedArea ==
    /\ AfterResultCrop =>
          /\ \A c \in Cells : impact_array[1][c] = IF c \in CropCells THEN 255 ELSE 0
          /\ LET diff == crop_hectares * CentiDen(pixel_area)
                           - CentiNum(Cardinality(CropCells), pixel_area)
             IN  2 * diff \in (-CentiDen(pixel_area)) .. CentiDen(pixel_area)
    /\ pc = "done" =>
          /\ \A c \in Cells : impact_file.bands[1][c] = IF c \in CropCells THEN 255 ELSE 0
          /\ agg.crop_centiha = crop_hectares

\* A finished run with cropland cells, a flooded cell of another class and an
\* unflooded cell of class 2, whose area product has a third decimal.
C9_Witness ==
    /\ pc = "done"
    /\ CropCells # {}
    /\ \E c \in Cells : flood[c] = 1 /\ crop_in[c] \notin {0, 2}
    /\ \E c \in Cells : flood[c] # 1 /\ crop_in[c] = 2
    /\ CentiNum(Cardinality(CropCells), pixel_area) % CentiDen(pixel_area) # 0

GroupsOf(t) == {g \in Groups : t \in GroupTags(g)}
TagGroups == [t \in ListedTags |-> GroupsOf(t)]
ListsOf(t) == IF t \in ListedTags THEN TagGroups[t] ELSE {}
NoTagInTwoLists == \A t \in ListedTags : Cardinality(TagGroups[t]) = 1

\* C10: no tag of the word lists is in two lists; once the frame is
\* classified, a row whose tag is in exactly one list has that list's
\* category and its cost, and a row whose tag is in no list has category None
\* and cost 0.
C10_ClassificationDeterministic ==
    /\ NoTagInTwoLists
    /\ fut["osm"] \in {"classified", "done"} =>
          \A i \in 1 .. Len(osm_gdf) :
              LET gs == ListsOf(osm_gdf[i].tag)
              IN  /\ Cardinality(gs) = 1 =>
                        /\ osm_gdf[i].amenity \in gs
                        /\ osm_gdf[i].cost = amenity_cost(osm_gdf[i].amenity)
                  /\ gs = {} =>
                        /\ osm_gdf[i].amenity = NoneCat
                        /\ osm_gdf[i].cost = 0

\* A classified frame with a row of the first list and a row of no list.
C10_Witness ==
    /\ fut["osm"] = "classified"
    /\ \E i \in 1 .. Len(osm_gdf) :
          osm_gdf[i].tag = "restaurant" /\ osm_gdf[i].amenity = "food"
    /\ \E i \in 1 .. Len(osm_gdf) :
          osm_gdf[i].tag = "shop" /\ osm_gdf[i].amenity = NoneCat /\ osm_gdf[i].cost = 0

Classified == fut["osm"] \in {"classified", "done"}

\* The string x holds the character ch.
HasChar(x, ch) == \E j \in 1 .. Len(x) : CharAt(x, j) = ch
\* The raw values without a double quote and without a line break.
PlainValues == {v \in LegacyValues : ~HasChar(v, Quote) /\ ~HasChar(v, Newline)}

\* C11 (as claimed): a row whose blob is amenity"=>"v" (the spec's example
\* form) or "amenity"=>"v", for any raw value v, gets the category
\* amen_group gives v, also when another amenity entry follows.
C11_LegacyMatchesDirect ==
    (tag_column = "other_tags" /\ Classified) =>
        \A i \in 1 .. Len(osm_gdf) : \A v \in LegacyValues, rest \in BlobSuffixes :
            osm_gdf[i].tag \in {BareEntry(v), Entry(v) \o rest} =>
                osm_gdf[i].amenity = amen_group(v)

\* C11 (amended): a row whose blob holds "amenity"=>"v", opening quote
\* included, as its first amenity entry, for a raw value v without a double
\* quote and without a line break, gets the category amen_group gives v and
\* that category's cost, whatever follows the entry; a row whose blob is
\* amenity"=>"v" without the opening quote gets no category and cost 0; a
\* row of an 'amenity' or 'fclass' column with the value v gets the category
\* amen_group gives v.
C11_LegacyFirstEntry ==
    Classified =>
        \A i \in 1 .. Len(osm_gdf) :
            IF tag_column = "other_tags"
            THEN /\ \A v \in PlainValues, pre \in BlobPrefixes, rest \in BlobSuffixes :
                       osm_gdf[i].tag = pre \o Entry(v) \o rest =>
                           /\ osm_gdf[i].amenity = amen_group(v)
                           /\ osm_gdf[i].cost = amenity_cost(amen_group(v))
                 /\ \A v \in LegacyValues :
                       osm_gdf[i].tag = BareEntry(v) =>
                           /\ osm_gdf[i].amenity = NoneCat
                           /\ osm_gdf[i].cost = 0
            ELSE /\ osm_gdf[i].amenity = amen_group(osm_gdf[i].tag)
                 /\ osm_gdf[i].cost = amenity_cost(amen_group(osm_gdf[i].tag))

\* A classified other_tags frame with a row whose blob has a restaurant entry
\* followed by a hospital entry, classified as food, and a row whose blob
\* lacks the opening quote, left without a category.
C11_Witness ==
    /\ tag_column = "other_tags" /\ fut["osm"] = "classified"
    /\ \E i \in 1 .. Len(osm_gdf) :
          /\ osm_gdf[i].tag = Entry("restaurant") \o "," \o Entry("hospital")
          /\ osm_gdf[i].amenity = "food"
          /\ osm_gdf[i].cost = amenity_cost("food")
    /\ \E i \in 1 .. Len(osm_gdf) :
          /\ osm_gdf[i].tag = BareEntry("restaurant")
          /\ osm_gdf[i].amenity = NoneCat

\* C12 (as claimed): when the retained point table is empty, or its maximum
\* cost is 0, the scatter step divides nothing by zero, impact() does not
\* fail there, band 2 is zero at every pixel and the infrastructure cost is 0.
C12_EmptyAmenityPolicy ==
    /\ (AfterScatter /\ (location_df = <<>> \/ max_osm_cost.v = 0)) =>
          /\ "scatter" \notin zero_div
          /\ impact_array[2] = ZeroRaster
    /\ (pc = "done" /\ (location_df = <<>> \/ max_osm_cost.v = 0)) =>
          /\ impact_file.bands[2] = ZeroRaster
          /\ agg.building_cost = 0

\* C13 (as claimed): when the masked population array has max = min, the
\* population task divides nothing by zero and does not fail, and band 0 is
\* zero at every pixel once the result is stored.
C13_DegenerateRangePolicy ==
    NormalizeDivisor(MaskedPop(flood, pop_in)) = 0 =>
        /\ "normalize_array" \notin zero_div
        /\ fut["pop"] # "failed"
        /\ AfterResultPop => impact_array[0] = ZeroRaster

\* A step of a channel task: the pool changes and the main thread stays.
TaskStep == fut' # fut /\ pc' = pc
Band012(arr) == <<arr[0], arr[1], arr[2]>>

\* C14: a step of a channel task changes neither the impact array nor the
\* flood mask; until the scatter step bands 2 and 3 are zero, and from the
\* scatter step on all three tasks have completed; once alpha is derived,
\* bands 0, 1 and 2 do not change any more.
C14_CompositorSoleWriter ==
    /\ [](/\ ~AfterScatter => (impact_array[2] = ZeroRaster /\ impact_array[3] = ZeroRaster)
          /\ (pc = "scatter" \/ AfterScatter) => \A t \in Tasks : fut[t] = "done"
          /\ pc = "alpha" => impact_array[3] = ZeroRaster)
    /\ [][/\ TaskStep => (impact_array' = impact_array /\ flood' = flood)
          /\ AfterAlpha => Band012(impact_array') = Band012(impact_array)]_vars

\* Band 2 is scattered and alpha is not derived yet, all three tasks having
\* completed.
C14_Witness ==
    /\ pc = "alpha"
    /\ impact_array[2] # ZeroRaster /\ impact_array[3] = ZeroRaster
    /\ impact_array[0] # ZeroRaster /\ impact_array[1] # ZeroRaster
    /\ \A t \in Tasks : fut[t] = "done"

\* The retained points of a pixel, and cost * 255 / max_cost as a uint8.
RetainedAt(c) == {i \in RetainedSet : c = <<PtRow(i), PtCol(i)>>}
MaxRetainedCost == Max({PtCost(i) : i \in RetainedSet})
ScaledCost(i) ==
    IF MaxRetainedCost = 0 THEN nan_u8 ELSE ((PtCost(i) * 255) \div MaxRetainedCost) % 256

\* C15: after the scatter step, and in the written raster, band 2 of a pixel
\* with retained points is cost * 255 / max_cost of the last of them in layer
\* order, and band 2 of a pixel without retained point is 0.
C15_LastWriteWins ==
    /\ AfterScatter =>
          \A c \in Cells :
              impact_array[2][c] =
                  IF RetainedAt(c) = {} THEN 0 ELSE ScaledCost(Max(RetainedAt(c)))
    /\ pc = "done" =>
          \A c \in Cells :
              impact_file.bands[2][c] =
                  IF RetainedAt(c) = {} THEN 0 ELSE ScaledCost(Max(RetainedAt(c)))

\* A finished run where two retained points share a pixel, the later one
\* cheaper, and the pixel holds the later one's value.
C15_Witness ==
    /\ pc = "done"
    /\ \E i, j \in RetainedSet :
          /\ i < j /\ PtRow(i) = PtRow(j) /\ PtCol(i) = PtCol(j)
          /\ PtCost(j) < PtCost(i) /\ PtCost(j) > 0
          /\ impact_file.bands[2][<<PtRow(j), PtCol(j)>>] = ScaledCost(j)
          /\ ScaledCost(i) = 255 /\ ScaledCost(j) < 255

\* C16: in a finished run the infrastructure cost is the sum of the costs of
\* all retained points, each counted once whatever band 2 holds at its
\* pixel, and the total is the infrastructure cost plus the residential cost
\* (the population count times the cost per person) plus the cropland cost
\* (the hectares times the cost per hectare).
C16_InfrastructureRawSum ==
    pc = "done" =>
        /\ agg.building_cost = SumCost(RetainedSet)
        /\ agg.total = Dollars(SumCost(RetainedSet),
                               SumOver(MaskedPop(flood, pop_in), Cells),
                               crop_hectares)

\* A finished run where two retained points share a pixel: both are in the
\* sum, one of them is in band 2.
C16_Witness ==
    /\ pc = "done"
    /\ \E i, j \in RetainedSet :
          /\ i < j /\ PtRow(i) = PtRow(j) /\ PtCol(i) = PtCol(j)
          /\ PtCost(i) > PtCost(j) /\ PtCost(j) > 0
          /\ agg.building_cost = PtCost(i) + PtCost(j)
    /\ agg.total.sq_ft = agg.building_cost
    /\ agg.total.persons > 0 /\ agg.total.centiha > 0

\* C17 (as claimed): when a cost file is requested, every cell of the written
\* cost raster is the cost formula over the bands, the population maximum and
\* the amenity maximum, with negative values replaced by 0, so no cell is
\* negative, with either backend.
C17_CostRasterClamped ==
    (pc \in {"report", "done"} /\ want_cost) =>
        /\ cost_out.written
        /\ \A c \in Cells :
              LET raw == RawCostCell(impact_array, c, max_pop, max_osm_cost)
              IN  /\ cost_out.data[c] = IF IsNegative(raw) THEN ZeroCost ELSE raw
                  /\ ~IsNegative(cost_out.data[c])

====
